---------------------------- MODULE Spec2Model ----------------------------
(***************************************************************************)
(* A state-machine model of the useChat hook                                *)
(* (src/packages/react/src/use-chat.ts): the SWR-backed session store       *)
(* (messages, status, error), the hook's refs (messagesRef,                 *)
(* abortControllerRef), the render closure (status as captured by           *)
(* addToolResult), and the request cycles started by triggerRequest.        *)
(*                                                                          *)
(* One action is one synchronous run of a handler: from the call (or the    *)
(* resumption of an await) to the next await.  JavaScript runs such a       *)
(* block without interleaving, so a handler that ends a cycle and           *)
(* resubmits does both in one step.                                         *)
(*                                                                          *)
(* callChatApi, shouldResubmitMessages, updateToolCallResult,               *)
(* extractMaxToolInvocationStep, isAssistantMessageWithCompletedToolCalls   *)
(* and throttle are imported by use-chat.ts from packages whose files are   *)
(* not part of the sources at hand; they are modelled from the design       *)
(* document (sections 4.2, 4.3 and 5).                                      *)
(***************************************************************************)
EXTENDS Integers, Sequences, FiniteSets, TLC

\* ------------------------------------------------------------------ bounds

\* Operations the caller invokes in one behaviour (append, reload, stop,
\* setMessages, addToolResult).
MaxCalls == 3

\* A request cycle starts only while the caller's operations and the cycles
\* started so far are fewer than this together: two cycles within two
\* calls, three cycles within one.
MaxWork == 4

\* Calls of handleSubmit in one behaviour.
MaxSubmits == 2

\* Stream events (onUpdate calls) delivered to one request cycle.
MaxEvents == 2

\* Tool invocations held by one assistant message.
MaxTools == 2

\* Text deltas one response of the backend streams.
MaxText == 1

\* Messages in a history handed to triggerRequest by append.
MaxMsgs == 3

\* append calls suspended at `await prepareAttachmentsForRequest`.
MaxPending == 1

\* Messages of a request whose payload is built on its own.
MaxPayloadMsgs == 2

\* Largest value of the maxSteps option that Init draws.
MaxStepsCfg == 2

\* Structured data items in one response, and in a list given to setData.
MaxData == 2

\* Calls made on one OpenAI provider.
MaxProviderCalls == 2

\* ------------------------------------------------------------------ values

\* `undefined` as the value of error.
None == "undefined"

\* Values callChatApi can reject with: an Error instance, a thrown value
\* that is not an Error instance (a string, a plain object), and the
\* DOMException raised by AbortController.abort().
AbortError == "AbortError"

FailureValues == {"Error", "NonError"}

\* err instanceof Error (use-chat.ts:448).
IsErrorInstance(v) == v \in {"Error", AbortError}

\* The undefined result of extractMaxToolInvocationStep.
NoStep == -1

\* A message: its role, its text (content), its tool invocations and whether
\* its parts are populated.
UserMessage == [role |-> "user", text |-> "hi", inv |-> <<>>, parts |-> TRUE]

\* A message as a caller writes it, in the legacy shape without parts.
Legacy(m) == [m EXCEPT !.parts = FALSE]

\* A fillMessageParts that returns the list as it is.
fillMessagePartsOmitted(list) == list

\* fillMessageParts: parts are derived for every message of the list.
fillMessageParts(list) ==
    [i \in 1..Len(list) |-> [list[i] EXCEPT !.parts = TRUE]]

\* getMessageParts, as append stores its result (use-chat.ts:522).
getMessageParts(m) == [m EXCEPT !.parts = TRUE]

\* What the user can have typed into the form: nothing, or some text.
Inputs == {"", "text"}

\* The user message handleSubmit builds from the input (use-chat.ts:634-642):
\* its content is the input and its parts are the one text part.
SubmittedMessage(content) ==
    [role |-> "user", text |-> content, inv |-> <<>>, parts |-> TRUE]

\* A call of append or handleSubmit suspended at its await, with the input
\* handleSubmit read and whether stop() has been called since.
PendingCall(op, content) == [op |-> op, content |-> content, stopped |-> FALSE]

NewAssistantMessage ==
    [role |-> "assistant", text |-> "", inv |-> <<>>, parts |-> TRUE]

\* The streamed message of a cycle that has received no event yet.
NoMsg == [role |-> "none", text |-> "", inv |-> <<>>, parts |-> TRUE]

\* A tool invocation: toolCallId is its index in the message.
Invocation(st, step) == [state |-> st, step |-> step]

\* The empty slot of a throttle's trailing timer.
NoWrite == [has |-> FALSE, val |-> <<>>]

Write(list) == [has |-> TRUE, val |-> list]

Last(s) == s[Len(s)]

Front(s) == SubSeq(s, 1, Len(s) - 1)

Max(a, b) == IF a >= b THEN a ELSE b

\* -------------------------------------------------------------- the state

VARIABLES
    cfg,                 \* the options the hook was constructed with
    messages,            \* SWR [chatKey, 'messages']
    status,              \* SWR [chatKey, 'status']
    error,               \* SWR [chatKey, 'error']
    messagesRef,         \* messagesRef.current
    statusSeen,          \* `status` as captured by the last render's closures
    abortControllerRef,  \* abortControllerRef.current: 0 (null) or a cycle id
    pendingAppends,      \* append and handleSubmit calls suspended at their
                         \* first await
    input,               \* the input state of the form
    cycles,              \* the request cycles still alive, by id
    started,             \* number of request cycles started so far
    calls,               \* number of operations the caller has invoked
    autoStarted,         \* history: cycles started by tool-call resolution
                         \* since the caller's last append or reload
    ended,               \* history: how a cycle ended in the last step
    peer,                \* a second useChat hook of the same application
    payload,             \* a request's messages and the payload built from
                         \* them
    streamData,          \* SWR [chatKey, 'streamData']
    streamDataRef,       \* streamDataRef.current
    provider             \* the calls made on an OpenAI provider, with what
                         \* each one produced

vars == <<cfg, messages, status, error, messagesRef, statusSeen,
          abortControllerRef, pendingAppends, input, cycles, started, calls,
          autoStarted, ended, peer, payload, streamData, streamDataRef,
          provider>>


\* A snapshot of the variables a handler writes while it runs; the handler's
\* operators map one snapshot to the next and the action commits the last.
Core == [messages |-> messages, status |-> status, error |-> error,
         abortControllerRef |-> abortControllerRef, cycles |-> cycles,
         started |-> started, auto |-> autoStarted, data |-> streamData]

Commit(s) ==
    /\ messages' = s.messages
    /\ status' = s.status
    /\ error' = s.error
    /\ abortControllerRef' = s.abortControllerRef
    /\ cycles' = s.cycles
    /\ started' = s.started
    /\ autoStarted' = s.auto
    /\ streamData' = s.data

InFlightIn(cs) == {c \in DOMAIN cs : cs[c].phase = "inflight"}

InFlight == InFlightIn(cycles)

Remove(cs, c) == [d \in (DOMAIN cs) \ {c} |-> cs[d]]

\* ---------------------------------------------------- tool-call utilities

\* extractMaxToolInvocationStep: the highest step among the invocations,
\* undefined when there is none.
RECURSIVE MaxStepOf(_)
MaxStepOf(inv) ==
    IF inv = <<>> THEN NoStep
    ELSE Max(Last(inv).step, MaxStepOf(Front(inv)))

extractMaxToolInvocationStep(list) ==
    IF list = <<>> THEN NoStep ELSE MaxStepOf(Last(list).inv)

\* x ?? 0 for a step.
OrZero(step) == IF step = NoStep THEN 0 ELSE step

isAssistantMessageWithCompletedToolCalls(m) ==
    /\ m.role = "assistant"
    /\ m.inv # <<>>
    /\ \A i \in 1..Len(m.inv) : m.inv[i].state = "result"

\* A continuation test without the test of progress and without the step
\* bound.
shouldResubmitMessagesUnbounded(originalMaxStep, originalMessageCount, maxSteps, list) ==
    /\ list # <<>>
    /\ isAssistantMessageWithCompletedToolCalls(Last(list))

\* The auto-continuation test of design section 4.2 step 8: the last message
\* is an assistant message whose tool invocations are all resolved, the
\* message count or the tool step has advanced since the cycle started, and
\* the number of resubmissions so far (the step of the last message) is
\* below the step bound; a bound of 1 means no auto-continuation.
shouldResubmitMessages(originalMaxStep, originalMessageCount, maxSteps, list) ==
    /\ maxSteps > 1
    /\ list # <<>>
    /\ \/ Len(list) > originalMessageCount
       \/ extractMaxToolInvocationStep(list) # originalMaxStep
    /\ isAssistantMessageWithCompletedToolCalls(Last(list))
    /\ OrZero(extractMaxToolInvocationStep(list)) < maxSteps

\* updateToolCallResult: the invocation of the last message with the given
\* id gets state "result"; no invocation matches, nothing changes.
updateToolCallResult(list, toolCallId) ==
    LET m == Last(list)
    IN  IF toolCallId \in 1..Len(m.inv)
        THEN [list EXCEPT ![Len(list)] =
                 [m EXCEPT !.inv[toolCallId].state = "result"]]
        ELSE list

\* ------------------------------------------------------------ the throttle

\* A throttle that drops the calls made while a trailing write is waiting.
ThrottledMutateKeepingFirst(s, c, list) ==
    LET cyc == s.cycles[c]
    IN  IF ~cfg.throttle
        THEN [s EXCEPT !.messages = list]
        ELSE IF ~cyc.inWindow
        THEN [s EXCEPT !.messages = list,
                       !.cycles[c].inWindow = TRUE,
                       !.cycles[c].pending = NoWrite]
        ELSE IF cyc.pending.has THEN s
        ELSE [s EXCEPT !.cycles[c].pending = Write(list)]

\* throttle(mutate, throttleWaitMs) as called by cycle c with a new list:
\* no wait configured, the write is immediate; otherwise the first call of
\* a window writes at once and a later one replaces the trailing timer.
ThrottledMutate(s, c, list) ==
    LET cyc == s.cycles[c]
    IN  IF ~cfg.throttle
        THEN [s EXCEPT !.messages = list]
        ELSE IF ~cyc.inWindow
        THEN [s EXCEPT !.messages = list,
                       !.cycles[c].inWindow = TRUE,
                       !.cycles[c].pending = NoWrite]
        ELSE [s EXCEPT !.cycles[c].pending = Write(list)]

\* throttle(mutateStreamData, throttleWaitMs) of use-chat.ts:338-340, a
\* throttle of its own with the same wait, as called by cycle c.
ThrottledMutateStreamData(s, c, list) ==
    LET cyc == s.cycles[c]
    IN  IF ~cfg.throttle
        THEN [s EXCEPT !.data = list]
        ELSE IF ~cyc.dataInWindow
        THEN [s EXCEPT !.data = list,
                       !.cycles[c].dataInWindow = TRUE,
                       !.cycles[c].dataPending = NoWrite]
        ELSE [s EXCEPT !.cycles[c].dataPending = Write(list)]

\* ---------------------------------------------------------- triggerRequest

\* MarkSubmitted without its setError(undefined).
MarkSubmittedKeepingError(s) == [s EXCEPT !.status = "submitted"]

\* MarkSubmitted without its mutateStatus('submitted').
MarkSubmittedKeepingStatus(s) == [s EXCEPT !.error = None]

\* use-chat.ts:317-319: mutateStatus('submitted'); setError(undefined).
MarkSubmitted(s) == [s EXCEPT !.status = "submitted", !.error = None]

\* The record of a request cycle: what triggerRequest keeps in its closure
\* (chatMessages, previousMessages, its AbortController, its throttle) and
\* how far callChatApi has come (the streamed message, the events so far).
\* existingData is streamDataRef.current as captured at use-chat.ts:372,
\* data the data items the response has delivered, dataInWindow and
\* dataPending the state of the throttle of the data writes; dataAtStart is
\* history, the stored data at that moment.
\* stopped is "no" until stop() aborts the cycle's controller, and then the
\* status the store showed at that moment.
\* deltas, depth, overlapped and early are history: the text deltas the
\* response has delivered, the cycle's place in its chain of
\* auto-continuations, whether another cycle was in flight during this one,
\* and whether stop() was called between append() and the start of this
\* cycle.
NewCycle(chatMessages, ref, depth, overlapped, early) ==
    [phase |-> "inflight",
     chatMessages |-> chatMessages,
     previousMessages |-> ref,
     stopped |-> "no",
     msg |-> NoMsg,
     deltas |-> <<>>,
     nEvents |-> 0,
     inWindow |-> cfg.throttle,
     pending |-> NoWrite,
     existingData |-> streamDataRef,
     dataAtStart |-> streamData,
     data |-> <<>>,
     dataInWindow |-> FALSE,
     dataPending |-> NoWrite,
     depth |-> depth,
     overlapped |-> overlapped,
     early |-> early]

\* A triggerRequest without the optimistic write of use-chat.ts:344.
triggerRequestWithoutWrite(s, messagesOfRequest, ref, depth, early, automatic) ==
    LET chatMessages == fillMessageParts(messagesOfRequest)
        id == s.started + 1
        others == InFlightIn(s.cycles)
        marked == [c \in DOMAIN s.cycles |->
                     IF c \in others
                     THEN [s.cycles[c] EXCEPT !.overlapped = TRUE]
                     ELSE s.cycles[c]]
        s1 == [s EXCEPT !.status = "submitted", !.error = None]
    IN  [s1 EXCEPT !.abortControllerRef = id,
                   !.started = id,
                   !.auto = IF automatic THEN @ + 1 ELSE 0,
                   !.cycles = marked @@
                       (id :> [phase |-> "inflight",
                               chatMessages |-> chatMessages,
                               previousMessages |-> ref,
                               stopped |-> "no",
                               msg |-> NoMsg,
                               deltas |-> <<>>,
                               nEvents |-> 0,
                               inWindow |-> cfg.throttle,
                               pending |-> NoWrite,
                               existingData |-> streamDataRef,
                               dataAtStart |-> streamData,
                               data |-> <<>>,
                               dataInWindow |-> FALSE,
                               dataPending |-> NoWrite,
                               depth |-> depth,
                               overlapped |-> others # {},
                               early |-> early])]

\* use-chat.ts:315-434, up to the await of callChatApi: status and error are
\* reset, the parts of the request's messages are filled, a new
\* AbortController replaces the one in the ref, the request's messages are
\* written to the store (the first call of a new throttle
\* always writes at once) and the call is issued.  ref is messagesRef.current;
\* automatic tells a request made by tool-call resolution (the continuation
\* check, addToolResult) from one the caller makes with append or reload.
triggerRequest(s, messagesOfRequest, ref, depth, early, automatic) ==
    LET chatMessages == fillMessageParts(messagesOfRequest)
        id == s.started + 1
        others == InFlightIn(s.cycles)
        marked == [c \in DOMAIN s.cycles |->
                     IF c \in others
                     THEN [s.cycles[c] EXCEPT !.overlapped = TRUE]
                     ELSE s.cycles[c]]
        s1 == MarkSubmitted(s)
    IN  [s1 EXCEPT !.abortControllerRef = id,
                   !.messages = chatMessages,
                   !.started = id,
                   !.auto = IF automatic THEN @ + 1 ELSE 0,
                   !.cycles = marked @@
                       (id :> NewCycle(chatMessages, ref, depth,
                                       others # {}, early))]

\* stop() has aborted the controller of this cycle.
Aborted(cyc) == cyc.stopped # "no"

\* use-chat.ts:436-439: what follows the await when callChatApi resolves.
AfterSuccess(s) == [s EXCEPT !.abortControllerRef = 0, !.status = "ready"]

\* A catch block without the AbortError branch of use-chat.ts:442-446.
CatchOutcomeWithoutAbortBranch(err) ==
    [status |-> "error", clearsRef |-> FALSE, setsError |-> TRUE,
     onError |-> IF cfg.onError /\ IsErrorInstance(err) THEN 1 ELSE 0,
     returns |-> FALSE]

\* A catch block that hands every value to onError, without the
\* `err instanceof Error` of use-chat.ts:448.
CatchOutcomeWithoutInstanceCheck(err) ==
    IF err = AbortError
    THEN [status |-> "ready", clearsRef |-> TRUE, setsError |-> FALSE,
          onError |-> 0, returns |-> TRUE]
    ELSE [status |-> "error", clearsRef |-> FALSE, setsError |-> TRUE,
          onError |-> IF cfg.onError THEN 1 ELSE 0, returns |-> FALSE]

\* A catch block that returns after mutateStatus('error'), before the
\* continuation check.
CatchOutcomeReturningAfterError(err) ==
    IF err = AbortError
    THEN [status |-> "ready", clearsRef |-> TRUE, setsError |-> FALSE,
          onError |-> 0, returns |-> TRUE]
    ELSE [status |-> "error", clearsRef |-> FALSE, setsError |-> TRUE,
          onError |-> IF cfg.onError /\ IsErrorInstance(err) THEN 1 ELSE 0,
          returns |-> TRUE]

\* use-chat.ts:440-454, the catch block: what it does with the value err.
\* status is the status written, clearsRef whether the ref is cleared,
\* setsError whether setError(err) runs, onError how often the caller's
\* callback is invoked, returns whether the handler returns before the
\* auto-continuation check.
CatchOutcome(err) ==
    IF err = AbortError
    THEN [status |-> "ready", clearsRef |-> TRUE, setsError |-> FALSE,
          onError |-> 0, returns |-> TRUE]
    ELSE [status |-> "error", clearsRef |-> FALSE, setsError |-> TRUE,
          onError |-> IF cfg.onError /\ IsErrorInstance(err) THEN 1 ELSE 0,
          returns |-> FALSE]

\* A settled cycle stays only while a throttle of it holds a trailing write.
Retire(s, c) ==
    IF s.cycles[c].pending.has \/ s.cycles[c].dataPending.has
    THEN [s EXCEPT !.cycles[c].phase = "settled"]
    ELSE [s EXCEPT !.cycles = Remove(s.cycles, c)]

\* use-chat.ts:456-466: the auto-continuation check on messagesRef.current,
\* against the message count and tool step recorded when cycle cyc started
\* (use-chat.ts:325-328).
Resubmits(cyc, ref) ==
    shouldResubmitMessages(extractMaxToolInvocationStep(cyc.chatMessages),
                           Len(cyc.chatMessages), cfg.maxSteps, ref)

\* use-chat.ts:467: await triggerRequest({ messages }).
Continue(s, cyc, ref) ==
    IF Resubmits(cyc, ref)
    THEN triggerRequest(s, ref, ref, cyc.depth + 1, FALSE, TRUE)
    ELSE s

\* One more cycle can start within the bounds.
Room(callsAfter, s) == callsAfter + s.started < MaxWork

\* The caller invokes one more operation.
Call == calls < MaxCalls /\ calls' = calls + 1

\* How a cycle ended, as seen right after its try/catch; NotEnded in every
\* step that ends no cycle.
\* should is the value of the continuation test for the cycle, whether or
\* not the handler reached it; returned is what the promise of triggerRequest
\* resolves to; rolledBack tells whether the store holds the cycle's
\* previousMessages right after the try/catch; sent whether callChatApi was
\* called.
Ended(how, value, s, cyc, onError, resub, should, returned) ==
    [how |-> how, value |-> value, status |-> s.status, error |-> s.error,
     onError |-> onError, overlapped |-> cyc.overlapped,
     stopped |-> cyc.stopped, nEvents |-> cyc.nEvents,
     resubmitted |-> resub, should |-> should, returned |-> returned,
     rolledBack |-> s.messages = cyc.previousMessages,
     sent |-> cyc.phase = "inflight"]

NotEnded ==
    [how |-> "none", value |-> None, status |-> "ready", error |-> None,
     onError |-> 0, overlapped |-> FALSE, stopped |-> "no", nEvents |-> 0,
     resubmitted |-> FALSE, should |-> FALSE, returned |-> "pending",
     rolledBack |-> FALSE, sent |-> FALSE]

\* use-chat.ts:440-468 for cycle c of snapshot s: the catch block handles
\* err, then, unless it returned, the continuation check runs on ref
\* (messagesRef.current).  The result is the snapshot after the handler and
\* the record of how the cycle ended.
Settle(s, c, err, ref) ==
    LET cyc == s.cycles[c]
        out == CatchOutcome(err)
        s1 == [s EXCEPT
                 !.status = out.status,
                 !.error = IF out.setsError THEN err ELSE @,
                 !.abortControllerRef = IF out.clearsRef THEN 0 ELSE @]
        resub == ~out.returns /\ Resubmits(cyc, ref)
    IN  [core |-> IF out.returns THEN Retire(s1, c)
                  ELSE Continue(Retire(s1, c), cyc, ref),
         ended |-> Ended(IF err = AbortError THEN "abort" ELSE "error",
                         err, s1, cyc, out.onError, resub,
                         Resubmits(cyc, ref),
                         IF out.returns THEN "null" ELSE "undefined")]

\* What can happen between the optimistic write and the call of callChatApi
\* (use-chat.ts:348-397): the request body is built and the call is made
\* ("sent"), or experimental_prepareRequestBody throws a value.
StartOutcomes == {"sent"} \cup FailureValues

\* triggerRequest from its call to its first await, or to its end when
\* building the request throws: then the catch block and the continuation
\* check run in the same synchronous block, and callChatApi, which alone
\* calls restoreMessagesOnFailure, is never reached.
Start(s, chatMessages, ref, depth, early, automatic, outcome) ==
    LET s1 == triggerRequest(s, chatMessages, ref, depth, early, automatic)
        c == s1.started
    IN  IF outcome = "sent"
        THEN [core |-> s1, ended |-> NotEnded]
        ELSE Settle([s1 EXCEPT !.cycles[c].phase = "building"], c, outcome,
                    ref)

\* A step that starts cycles keeps the cycles started within the bounds.
Fits(callsAfter, s) == s.started > started => callsAfter + s.started <= MaxWork

\* ------------------------------------------------------------------- Init

\* The options of the hook: every maxSteps with the other options at one
\* setting, and each other option varied on its own.
\* api and id name the endpoint and the session; deltas are the text deltas
\* the backend behind api streams in one response, in their order, and data
\* the structured data items it streams.
BaseConfig ==
    [maxSteps |-> MaxStepsCfg, keepLastMessageOnError |-> TRUE,
     throttle |-> FALSE, onError |-> TRUE, api |-> "/api/chat",
     id |-> "chat", sendExtraMessageFields |-> FALSE,
     deltas |-> [i \in 1..MaxText |-> "H"], data |-> <<>>]

Configs ==
    {[BaseConfig EXCEPT !.maxSteps = n] : n \in 1..MaxStepsCfg}
    \cup {[BaseConfig EXCEPT !.keepLastMessageOnError = FALSE],
          [BaseConfig EXCEPT !.onError = FALSE]}

\* initialMessages as the caller passes them, in the legacy shape: an empty
\* history, or a history whose last assistant message waits for the result
\* of a tool call.
InitialHistories ==
    {<<>>,
     <<Legacy(UserMessage),
       [role |-> "assistant", text |-> "",
        inv |-> <<Invocation("call", 0)>>, parts |-> FALSE]>>}

\* The hook with experimental_throttle set, and without it.
ThrottledConfigs ==
    {[BaseConfig EXCEPT !.throttle = b, !.maxSteps = 1] : b \in BOOLEAN}

\* No second hook, and no payload under study.
\* abortControllerRef is the second hook's own ref (use-chat.ts:295);
\* stopped is history: the second hook's stop() has been called.
NoPeer ==
    [api |-> "none", id |-> "none", messages |-> <<>>, status |-> "ready",
     error |-> None, abortControllerRef |-> 0, stopped |-> FALSE]

NoPayload == [request |-> <<>>, built |-> FALSE, messages |-> <<>>]

\* An OpenAI provider on which no call has been made: createdWithNew tells
\* whether createOpenAI itself was invoked with new, log holds the calls made
\* on the provider with what each produced.
NoProvider == [createdWithNew |-> FALSE, log |-> <<>>]

\* The hook's own state after the first render of a hook constructed with
\* options c (use-chat.ts:256-267: the store falls back to the processed
\* initial messages).
FirstRender(c) ==
    /\ cfg = c
    /\ messages \in {fillMessageParts(h) : h \in InitialHistories}
    /\ messagesRef = messages
    /\ status = "ready"
    /\ statusSeen = "ready"
    /\ error = None
    /\ abortControllerRef = 0
    /\ pendingAppends = <<>>
    /\ input = ""
    /\ cycles = <<>>
    /\ started = 0
    /\ calls = 0
    /\ autoStarted = 0
    /\ ended = NotEnded
    /\ streamData = <<>>
    /\ streamDataRef = <<>>

\* The state after the first render of a hook constructed with options c.
Constructed(c) ==
    /\ FirstRender(c)
    /\ peer = NoPeer
    /\ payload = NoPayload
    /\ provider = NoProvider

Init == \E c \in Configs : Constructed(c)

\* A backend whose responses stream the text "Hello" in two deltas, and one
\* that streams the same deltas the other way round.
ScenarioDeltas == <<"H", "ello">>

StreamConfigs ==
    {[BaseConfig EXCEPT !.maxSteps = 1, !.deltas = d] :
        d \in {ScenarioDeltas, <<"ello", "H">>}}

\* A hook constructed without initialMessages or with the one user message
\* "hi".
InitStream ==
    /\ \E c \in StreamConfigs : Constructed(c)
    /\ Len(messages) < 2

\* ------------------------------------------------- the outgoing payload

\* The fields triggerRequest copies into the payload when they are not
\* undefined (use-chat.ts:354-358 and 362-368), and the fields of a message
\* it never copies.
OptionalFields ==
    {"experimental_attachments", "data", "annotations", "toolInvocations",
     "parts"}

BookkeepingFields == {"id", "createdAt"}

\* The messages of a request with all their fields: a field holds a value
\* or is undefined; parts tells, as elsewhere, whether the parts are
\* populated.
UIMessages ==
    [role : {"user", "assistant"}, content : {"hi"}, id : {"id"},
     createdAt : {None, "date"}, experimental_attachments : {None, "set"},
     data : {None, "set"}, annotations : {None, "set"},
     toolInvocations : {None, "set"}, parts : BOOLEAN]

\* field !== undefined for a field of message m.
Defined(m, field) == IF field = "parts" THEN m.parts ELSE m[field] # None

\* A payload that carries the id of every message.
constructedMessagesPayloadKeepingId(chatMessages) ==
    IF cfg.sendExtraMessageFields THEN chatMessages
    ELSE [i \in 1..Len(chatMessages) |->
            [field \in {"role", "content", "id"} \cup
                       {f \in OptionalFields : Defined(chatMessages[i], f)}
                |-> chatMessages[i][field]]]

\* use-chat.ts:348-370: constructedMessagesPayload, the messages as they are
\* when sendExtraMessageFields is set, and otherwise role, content and the
\* optional fields that are not undefined.
constructedMessagesPayload(chatMessages) ==
    IF cfg.sendExtraMessageFields THEN chatMessages
    ELSE [i \in 1..Len(chatMessages) |->
            [field \in {"role", "content"} \cup
                       {f \in OptionalFields : Defined(chatMessages[i], f)}
                |-> chatMessages[i][field]]]

\* The requests whose payload is built: up to MaxPayloadMsgs messages.
Requests ==
    UNION {[1..n -> UIMessages] : n \in 0..MaxPayloadMsgs}

\* A hook with or without sendExtraMessageFields, and a request handed to
\* triggerRequest.
InitPayload ==
    /\ \E b \in BOOLEAN :
          FirstRender([BaseConfig EXCEPT !.sendExtraMessageFields = b])
    /\ messages = <<>>
    /\ peer = NoPeer
    /\ provider = NoProvider
    /\ \E r \in Requests :
          payload = [request |-> r, built |-> FALSE, messages |-> <<>>]

\* use-chat.ts:322 and 348-370: triggerRequest fills the parts of the
\* request's messages and builds the messages of the default payload.
BuildPayload ==
    /\ ~payload.built
    /\ payload' = [payload EXCEPT
                      !.built = TRUE,
                      !.messages = constructedMessagesPayload(
                                      fillMessageParts(payload.request))]
    /\ UNCHANGED <<cfg, peer, messages, status, error, messagesRef, statusSeen,
                   abortControllerRef, pendingAppends, input, cycles, started,
                   calls, autoStarted, ended, provider, streamData,
                   streamDataRef>>

\* ------------------------------------------------- the OpenAI provider

\* Model ids a caller passes to the provider.
ModelIds == {"gpt-3.5-turbo-instruct", "gpt-3.5-turbo", "gpt-4"}

\* openai-provider.ts:335-346 and 356-367: the model objects.
createChatModel(modelId) ==
    [kind |-> "model", model |-> "chat", modelId |-> modelId]

createCompletionModel(modelId) ==
    [kind |-> "model", model |-> "completion", modelId |-> modelId]

\* A call that ends by throwing.
Thrown(what) == [kind |-> "thrown", model |-> what, modelId |-> ""]

\* openai-provider.ts:449-470.  createLanguageModel is an arrow function, so
\* its new.target is the one of the enclosing call of createOpenAI.
createLanguageModel(modelId, newTarget) ==
    IF newTarget THEN Thrown("Error")
    ELSE IF modelId = "gpt-3.5-turbo-instruct"
    THEN createCompletionModel(modelId)
    ELSE createChatModel(modelId)

\* What a call on the provider produces.  entry is "provider" for the
\* provider called as a function (openai-provider.ts:495-500) and
\* "languageModel" for provider.languageModel (503).  The provider is an
\* ordinary function: invoked with new it runs its body, and the object the
\* body returns is the value of the new expression.  provider.languageModel
\* is the arrow function itself, which is not a constructor: invoked with
\* new it throws a TypeError before its body runs.
Invoke(entry, withNew, modelId, createdWithNew) ==
    IF entry = "languageModel" /\ withNew THEN Thrown("TypeError")
    ELSE createLanguageModel(modelId, createdWithNew)

\* A provider made by createOpenAI(options) or, which JavaScript allows for a
\* function declaration, by new createOpenAI(options).
InitProvider ==
    /\ FirstRender(BaseConfig)
    /\ messages = <<>>
    /\ peer = NoPeer
    /\ payload = NoPayload
    /\ \E b \in BOOLEAN : provider = [NoProvider EXCEPT !.createdWithNew = b]

\* The caller invokes the provider or its languageModel method, with or
\* without new.
ProviderCall ==
    /\ Len(provider.log) < MaxProviderCalls
    /\ \E entry \in {"provider", "languageModel"}, withNew \in BOOLEAN,
          modelId \in ModelIds :
          provider' = [provider EXCEPT !.log = Append(@,
              [entry |-> entry, withNew |-> withNew, modelId |-> modelId,
               result |-> Invoke(entry, withNew, modelId,
                                 provider.createdWithNew)])]
    /\ UNCHANGED <<cfg, messages, status, error, messagesRef, statusSeen,
                   abortControllerRef, pendingAppends, input, cycles, started,
                   calls, autoStarted, ended, peer, payload, streamData,
                   streamDataRef>>

\* use-chat.ts:252-253: the key under which a hook keeps its store entries,
\* `typeof api === 'string' ? [api, chatId] : chatId`; api is a string in
\* every configuration drawn here.
chatKey(api, id) == <<api, id>>

\* The endpoints and session ids a second hook can be constructed with.
Apis == {"/api/chat", "/api/other"}

Ids == {"chat", "other"}

\* Both hooks read and write the same store entries (use-chat.ts:263-292).
SharesEntry == chatKey(cfg.api, cfg.id) = chatKey(peer.api, peer.id)

\* What the hook and the second hook return as messages, status and error.
HookView == [messages |-> messages, status |-> status, error |-> error]

PeerView ==
    IF SharesEntry THEN HookView
    ELSE [messages |-> peer.messages, status |-> peer.status,
          error |-> peer.error]

\* Two hooks constructed with the same initialMessages; the second one with
\* any endpoint and session id.
InitShared ==
    /\ FirstRender(BaseConfig)
    /\ \E a \in Apis, i \in Ids :
          peer = [NoPeer EXCEPT !.api = a, !.id = i, !.messages = messages]
    /\ payload = NoPayload
    /\ provider = NoProvider

InitThrottled == \E c \in ThrottledConfigs : Constructed(c)

\* A backend whose responses stream the data items 1, 2, ... and no text,
\* behind a hook with and without experimental_throttle.
DataConfigs ==
    {[BaseConfig EXCEPT !.throttle = b, !.maxSteps = 1, !.deltas = <<>>,
                        !.data = [i \in 1..MaxData |-> i]] : b \in BOOLEAN}

\* A hook constructed with a history that reload can resubmit.
InitData ==
    /\ \E c \in DataConfigs : Constructed(c)
    /\ messages # <<>>

\* ---------------------------------------------------- the caller's operations

\* use-chat.ts:500-513: append runs to `await prepareAttachmentsForRequest`
\* and suspends; nothing has been read or written yet.  The entry records
\* whether stop() is called before append resumes.
AppendCall ==
    /\ Call
    /\ Len(pendingAppends) < MaxPending
    /\ pendingAppends' = Append(pendingAppends, PendingCall("append", ""))
    /\ ended' = NotEnded
    /\ UNCHANGED <<cfg, peer, payload, input, messages, status, error,
                   messagesRef, statusSeen, abortControllerRef, cycles,
                   started, autoStarted, provider, streamData, streamDataRef>>

\* use-chat.ts:515-526: append resumes, builds the new history from
\* messagesRef.current and calls triggerRequest.
AppendResume ==
    /\ pendingAppends # <<>>
    /\ Head(pendingAppends).op = "append"
    /\ Len(messagesRef) < MaxMsgs
    /\ \E outcome \in StartOutcomes :
          LET r == Start(Core,
                         Append(messagesRef,
                                getMessageParts(Legacy(UserMessage))),
                         messagesRef, 1, Head(pendingAppends).stopped, FALSE,
                         outcome)
          IN  /\ Fits(calls, r.core)
              /\ Commit(r.core)
              /\ ended' = r.ended
    /\ pendingAppends' = Tail(pendingAppends)
    /\ UNCHANGED <<cfg, peer, payload, input, messagesRef, statusSeen, calls,
                   provider, streamDataRef>>

\* A reload that resubmits the history as it is, assistant message
\* included.
reloadKeepingLast ==
    /\ Call
    /\ pendingAppends = <<>>
    /\ IF messagesRef = <<>>
       THEN Commit(Core) /\ ended' = NotEnded
       ELSE \E outcome \in StartOutcomes :
              LET r == Start(Core, messagesRef, messagesRef, 1, FALSE, FALSE,
                             outcome)
              IN  /\ Fits(calls + 1, r.core)
                  /\ Commit(r.core)
                  /\ ended' = r.ended
    /\ UNCHANGED <<cfg, peer, payload, input, messagesRef, statusSeen,
                   pendingAppends, provider, streamDataRef>>

\* use-chat.ts:535-554.
reload ==
    /\ Call
    /\ pendingAppends = <<>>
    /\ IF messagesRef = <<>>
       THEN Commit(Core) /\ ended' = NotEnded
       ELSE \E outcome \in StartOutcomes :
              LET r == Start(Core,
                             IF Last(messagesRef).role = "assistant"
                             THEN Front(messagesRef) ELSE messagesRef,
                             messagesRef, 1, FALSE, FALSE, outcome)
              IN  /\ Fits(calls + 1, r.core)
                  /\ Commit(r.core)
                  /\ ended' = r.ended
    /\ UNCHANGED <<cfg, peer, payload, input, messagesRef, statusSeen,
                   pendingAppends, provider, streamDataRef>>

\* A stop that also writes status 'ready' itself.
stopSettingReady ==
    /\ Call
    /\ LET c == abortControllerRef
       IN  Commit([Core EXCEPT
                    !.status = "ready",
                    !.abortControllerRef = 0,
                    !.cycles = [d \in DOMAIN cycles |->
                        IF d = c /\ cycles[d].phase = "inflight"
                        THEN [cycles[d] EXCEPT !.stopped = status]
                        ELSE cycles[d]]])
    /\ pendingAppends' = [i \in 1..Len(pendingAppends) |->
                             [pendingAppends[i] EXCEPT !.stopped = TRUE]]
    /\ ended' = NotEnded
    /\ UNCHANGED <<cfg, peer, payload, input, messagesRef, statusSeen,
                   provider, streamDataRef>>

\* use-chat.ts:559-564: the controller in the ref, if any, is aborted and the
\* ref is cleared.  The controller may belong to a cycle that has ended.
stop ==
    /\ Call
    /\ LET c == abortControllerRef
       IN  IF c = 0
           THEN Commit(Core)
           ELSE Commit([Core EXCEPT
                    !.abortControllerRef = 0,
                    !.cycles = [d \in DOMAIN cycles |->
                        IF d = c /\ cycles[d].phase = "inflight"
                        THEN [cycles[d] EXCEPT !.stopped = status]
                        ELSE cycles[d]]])
    /\ pendingAppends' = [i \in 1..Len(pendingAppends) |->
                             [pendingAppends[i] EXCEPT !.stopped = TRUE]]
    /\ ended' = NotEnded
    /\ UNCHANGED <<cfg, peer, payload, input, messagesRef, statusSeen,
                   provider, streamDataRef>>

\* A setMessages that also resets status and error.
setMessagesAndReset ==
    /\ Call
    /\ pendingAppends = <<>>
    /\ messagesRef # <<>>
    /\ messages' = Front(messagesRef)
    /\ messagesRef' = Front(messagesRef)
    /\ status' = "ready"
    /\ error' = None
    /\ ended' = NotEnded
    /\ UNCHANGED <<cfg, peer, payload, input, statusSeen, abortControllerRef,
                   pendingAppends, cycles, started, autoStarted, provider,
                   streamData, streamDataRef>>

\* The updater the caller passes to setMessages: it drops the last message
\* of the history (an edit before a manual reload) and rebuilds the others
\* in the legacy shape.
Edited(list) == [i \in 1..(Len(list) - 1) |-> Legacy(list[i])]

\* use-chat.ts:570-581: the updater is applied to messagesRef.current, the
\* parts are filled, and store and ref are overwritten.
setMessages ==
    /\ Call
    /\ pendingAppends = <<>>
    /\ messagesRef # <<>>
    /\ LET messagesWithParts == fillMessageParts(Edited(messagesRef))
       IN  /\ messages' = messagesWithParts
           /\ messagesRef' = messagesWithParts
    /\ ended' = NotEnded
    /\ UNCHANGED <<cfg, peer, payload, input, status, error, statusSeen,
                   abortControllerRef, pendingAppends, cycles, started,
                   autoStarted, provider, streamData, streamDataRef>>

\* The values the caller passes to setData, given streamDataRef.current: a
\* list, undefined (the empty list here), or an updater that adds an item.
DataEdits(current) == {<<>>, <<0>>, Append(current, 0)}

\* use-chat.ts:587-602: an updater is applied to streamDataRef.current, and
\* store and ref are overwritten.
setData ==
    /\ Call
    /\ pendingAppends = <<>>
    /\ \E data \in DataEdits(streamDataRef) :
          /\ Len(data) <= MaxData
          /\ streamData' = data
          /\ streamDataRef' = data
    /\ ended' = NotEnded
    /\ UNCHANGED <<cfg, peer, payload, input, messages, status, error,
                   messagesRef, statusSeen, abortControllerRef,
                   pendingAppends, cycles, started, autoStarted, provider>>

\* use-chat.ts:570-581 as the second hook runs it, with a list in place of
\* an updater: the write goes to the entry under the second hook's key.
PeerSetMessages(list) ==
    /\ Call
    /\ pendingAppends = <<>>
    /\ IF SharesEntry
       THEN messages' = fillMessageParts(list) /\ peer' = peer
       ELSE /\ peer' = [peer EXCEPT !.messages = fillMessageParts(list)]
            /\ messages' = messages
    /\ ended' = NotEnded
    /\ UNCHANGED <<cfg, payload, input, status, error, messagesRef, statusSeen,
                   abortControllerRef, pendingAppends, cycles, started,
                   autoStarted, provider, streamData, streamDataRef>>

\* The ids of the tool calls of the last message of messagesRef.current
\* that wait for their result.
OutstandingCalls ==
    IF messagesRef = <<>> THEN {}
    ELSE {i \in DOMAIN Last(messagesRef).inv :
            Last(messagesRef).inv[i].state = "call"}

\* The ids a caller can pass to addToolResult: those of the invocations a
\* message can hold, and one that no invocation has.
ToolCallIds == 1..(MaxTools + 1)

\* A stop() of the second hook that reads the first hook's ref.
PeerStopSharedToken ==
    /\ Call
    /\ LET c == abortControllerRef
       IN  IF c = 0
           THEN Commit(Core)
           ELSE Commit([Core EXCEPT
                    !.abortControllerRef = 0,
                    !.cycles = [d \in DOMAIN cycles |->
                        IF d = c /\ cycles[d].phase = "inflight"
                        THEN [cycles[d] EXCEPT !.stopped = status]
                        ELSE cycles[d]]])
    /\ peer' = [peer EXCEPT !.stopped = TRUE]
    /\ ended' = NotEnded
    /\ UNCHANGED <<cfg, payload, input, messagesRef, statusSeen,
                   pendingAppends, provider, streamDataRef>>

\* use-chat.ts:559-564 as the second hook runs it: the controller in the
\* second hook's own ref, if any, is aborted and that ref is cleared.  The
\* second hook starts no request here, so its ref holds no controller.
PeerStop ==
    /\ Call
    /\ peer' = [peer EXCEPT !.abortControllerRef = 0, !.stopped = TRUE]
    /\ ended' = NotEnded
    /\ UNCHANGED <<cfg, payload, input, messages, status, error, messagesRef,
                   statusSeen, abortControllerRef, pendingAppends, cycles,
                   started, autoStarted, provider, streamData, streamDataRef>>

\* use-chat.ts:666-698.  updateToolCallResult changes the last message of
\* messagesRef.current in place, so the ref holds the updated list as well as
\* the store; `status` is the value the closure captured at the last render.
addToolResult(toolCallId) ==
    /\ Call
    /\ pendingAppends = <<>>
    /\ messagesRef # <<>>
    /\ LET currentMessages == updateToolCallResult(messagesRef, toolCallId)
           s == [Core EXCEPT !.messages = currentMessages]
       IN  /\ messagesRef' = currentMessages
           /\ IF statusSeen \in {"submitted", "streaming"}
              THEN Commit(s) /\ ended' = NotEnded
              ELSE IF isAssistantMessageWithCompletedToolCalls(
                          Last(currentMessages))
              THEN \E outcome \in StartOutcomes :
                     LET r == Start(s, currentMessages, currentMessages, 1,
                                    FALSE, TRUE, outcome)
                     IN  /\ Fits(calls + 1, r.core)
                         /\ Commit(r.core)
                         /\ ended' = r.ended
              ELSE Commit(s) /\ ended' = NotEnded
    /\ UNCHANGED <<cfg, peer, payload, input, statusSeen, pendingAppends,
                   provider, streamDataRef>>

\* use-chat.ts:658-660, handleInputChange: setInput(e.target.value).
handleInputChange ==
    /\ pendingAppends = <<>>
    /\ \E value \in Inputs \ {input} : input' = value
    /\ ended' = NotEnded
    /\ UNCHANGED <<cfg, peer, payload, messages, status, error, messagesRef,
                   statusSeen, abortControllerRef, pendingAppends, cycles,
                   started, calls, autoStarted, provider, streamData,
                   streamDataRef>>

\* A handleSubmit without the test of use-chat.ts:620.
handleSubmitCallAlways(allowEmptySubmit) ==
    /\ Call
    /\ calls < MaxSubmits
    /\ Len(pendingAppends) < MaxPending
    /\ pendingAppends' =
          Append(pendingAppends, PendingCall("handleSubmit", input))
    /\ ended' = NotEnded
    /\ UNCHANGED <<cfg, peer, payload, input, messages, status, error,
                   messagesRef, statusSeen, abortControllerRef, cycles,
                   started, autoStarted, provider, streamData, streamDataRef>>

\* use-chat.ts:611-632: handleSubmit returns at once when the input is empty
\* and allowEmptySubmit is not set; otherwise it runs to
\* `await prepareAttachmentsForRequest` and suspends.
handleSubmitCall(allowEmptySubmit) ==
    /\ Call
    /\ calls < MaxSubmits
    /\ Len(pendingAppends) < MaxPending
    /\ pendingAppends' =
          IF input = "" /\ ~allowEmptySubmit THEN pendingAppends
          ELSE Append(pendingAppends, PendingCall("handleSubmit", input))
    /\ ended' = NotEnded
    /\ UNCHANGED <<cfg, peer, payload, input, messages, status, error,
                   messagesRef, statusSeen, abortControllerRef, cycles,
                   started, autoStarted, provider, streamData, streamDataRef>>

\* use-chat.ts:634-655: handleSubmit resumes, builds the new history from
\* messagesRef.current and the input it read, calls triggerRequest without
\* awaiting it, and clears the input.
handleSubmitResume ==
    /\ pendingAppends # <<>>
    /\ Head(pendingAppends).op = "handleSubmit"
    /\ Len(messagesRef) < MaxMsgs
    /\ \E outcome \in StartOutcomes :
          LET r == Start(Core,
                         Append(messagesRef,
                                SubmittedMessage(Head(pendingAppends).content)),
                         messagesRef, 1, Head(pendingAppends).stopped, FALSE,
                         outcome)
          IN  /\ Fits(calls, r.core)
              /\ Commit(r.core)
              /\ ended' = r.ended
    /\ pendingAppends' = Tail(pendingAppends)
    /\ input' = ""
    /\ UNCHANGED <<cfg, peer, payload, messagesRef, statusSeen, calls,
                   provider, streamDataRef>>

\* use-chat.ts:269-273, 281-284 and the re-render that precedes the
\* effects: the refs and the closures' status catch up with the store.
Render ==
    /\ pendingAppends = <<>>
    /\ \/ messagesRef # messages
       \/ statusSeen # status
       \/ streamDataRef # streamData
    /\ messagesRef' = messages
    /\ streamDataRef' = streamData
    /\ statusSeen' = status
    /\ ended' = NotEnded
    /\ UNCHANGED <<cfg, peer, payload, input, messages, status, error,
                   abortControllerRef, pendingAppends, cycles, started, calls,
                   autoStarted, provider, streamData>>

\* ------------------------------------------------------------ callChatApi

\* replaceLastMessage: the response continues the last message of the
\* request when that is an assistant message.
ReplacesLast(cyc) ==
    cyc.chatMessages # <<>> /\ Last(cyc.chatMessages).role = "assistant"

\* The step the invocations of this response carry: one more than the
\* highest step of the message it continues, 0 for a new message.
StepOf(cyc) ==
    IF ReplacesLast(cyc)
    THEN 1 + OrZero(extractMaxToolInvocationStep(cyc.chatMessages))
    ELSE 0

\* The message the response has built so far.
Streamed(cyc) ==
    IF cyc.msg # NoMsg THEN cyc.msg
    ELSE IF ReplacesLast(cyc) THEN Last(cyc.chatMessages)
    ELSE NewAssistantMessage

\* The events the stream of cycle cyc can deliver next, m being the message
\* built so far: the next text delta of the response, a tool call, the
\* result of a tool call (reported by the backend, or returned by
\* onToolCall), or the next structured data item of the response.
StreamEvents(cyc, m) ==
    {[kind |-> "text-delta", delta |-> cfg.deltas[Len(cyc.deltas) + 1],
      id |-> 0] : x \in {y \in {1} : Len(cyc.deltas) < Len(cfg.deltas)}}
    \cup {[kind |-> "tool-call", delta |-> "", id |-> 0] :
            x \in {y \in {1} : Len(m.inv) < MaxTools}}
    \cup {[kind |-> "tool-result", delta |-> "", id |-> i] :
            i \in {j \in 1..Len(m.inv) : m.inv[j].state = "call"}}
    \cup {[kind |-> "data", delta |-> cfg.data[Len(cyc.data) + 1],
           id |-> 0] : x \in {y \in {1} : Len(cyc.data) < Len(cfg.data)}}

\* A merge that puts a text delta in front of the text.
AfterEventPrepending(cyc, m, e) ==
    IF e.kind = "text-delta" THEN [m EXCEPT !.text = e.delta \o @]
    ELSE IF e.kind = "tool-call"
    THEN [m EXCEPT !.inv = Append(@, Invocation("call", StepOf(cyc)))]
    ELSE IF e.kind = "tool-result"
    THEN [m EXCEPT !.inv[e.id].state = "result"]
    ELSE m

\* The message after event e is merged into m: a text delta is appended to
\* the text, a tool call is added to the invocations, a result resolves its
\* invocation, a data item leaves the message as it is.
AfterEvent(cyc, m, e) ==
    IF e.kind = "text-delta" THEN [m EXCEPT !.text = @ \o e.delta]
    ELSE IF e.kind = "tool-call"
    THEN [m EXCEPT !.inv = Append(@, Invocation("call", StepOf(cyc)))]
    ELSE IF e.kind = "tool-result"
    THEN [m EXCEPT !.inv[e.id].state = "result"]
    ELSE m

\* An onUpdate that appends the streamed message to the stored list
\* instead of the request's messages.
onUpdateFromStore(s, c, message, data) ==
    LET cyc == s.cycles[c]
        base == IF ReplacesLast(cyc) /\ s.messages # <<>>
                THEN Front(s.messages) ELSE s.messages
    IN  ThrottledMutate([s EXCEPT !.status = "streaming"], c,
                        Append(base, message))

\* use-chat.ts:406-428, onUpdate: status becomes 'streaming', the list
\* built from the request's messages and the streamed message goes through
\* the cycle's throttle, and when the update carries data items
\* (`data?.length`) the captured existingData followed by them goes through
\* the throttle of the data writes.  data holds the data items the response
\* has delivered so far.
onUpdate(s, c, message, data) ==
    LET cyc == s.cycles[c]
        base == IF ReplacesLast(cyc) THEN Front(cyc.chatMessages)
                ELSE cyc.chatMessages
        s1 == ThrottledMutate([s EXCEPT !.status = "streaming"], c,
                              Append(base, message))
    IN  IF Len(data) > 0
        THEN ThrottledMutateStreamData(s1, c, cyc.existingData \o data)
        ELSE s1

\* One stream event reaches cycle c.  After stop() the events already queued
\* are still applied until the transport aborts.
Event(c) ==
    /\ pendingAppends = <<>>
    /\ c \in InFlight
    /\ cycles[c].nEvents < MaxEvents
    /\ \E e \in StreamEvents(cycles[c], Streamed(cycles[c])) :
          LET m == AfterEvent(cycles[c], Streamed(cycles[c]), e)
              data == IF e.kind = "data" THEN Append(cycles[c].data, e.delta)
                      ELSE cycles[c].data
          IN  Commit(onUpdate(
                  [Core EXCEPT
                     !.cycles[c].msg = m,
                     !.cycles[c].nEvents = @ + 1,
                     !.cycles[c].data = data,
                     !.cycles[c].deltas =
                        IF e.kind = "text-delta" THEN Append(@, e.delta)
                        ELSE @], c, m, data))
    /\ ended' = NotEnded
    /\ UNCHANGED <<cfg, peer, payload, input, messagesRef, statusSeen,
                   pendingAppends, calls, provider, streamDataRef>>

\* use-chat.ts:436-439 and 456-468: callChatApi resolves.
Succeed(c) ==
    /\ pendingAppends = <<>>
    /\ c \in InFlight
    /\ ~Aborted(cycles[c])
    /\ Resubmits(cycles[c], messagesRef) => Room(calls, Core)
    /\ LET cyc == cycles[c]
           s1 == AfterSuccess(Core)
       IN  /\ Commit(Continue(Retire(s1, c), cyc, messagesRef))
           /\ ended' = Ended("success", None, s1, cyc, 0,
                             Resubmits(cyc, messagesRef),
                             Resubmits(cyc, messagesRef), "undefined")
    /\ UNCHANGED <<cfg, peer, payload, input, messagesRef, statusSeen,
                   pendingAppends, calls, provider, streamDataRef>>

\* A restoreMessagesOnFailure that ignores keepLastMessageOnError.
restoreMessagesAlways(s, c) ==
    ThrottledMutate(s, c, s.cycles[c].previousMessages)

\* use-chat.ts:399-403: restoreMessagesOnFailure, which callChatApi invokes
\* before it rejects with a failure.
restoreMessagesOnFailure(s, c) ==
    IF ~cfg.keepLastMessageOnError
    THEN ThrottledMutate(s, c, s.cycles[c].previousMessages)
    ELSE s

\* use-chat.ts:440-468: callChatApi rejects with err and the catch block
\* runs, then (unless it returned) the auto-continuation check.
Rejected(c, err) ==
    /\ pendingAppends = <<>>
    /\ c \in InFlight
    /\ LET s0 == IF err = AbortError THEN Core
                 ELSE restoreMessagesOnFailure(Core, c)
           r == Settle(s0, c, err, messagesRef)
       IN  /\ Fits(calls, r.core)
           /\ Commit(r.core)
           /\ ended' = r.ended
    /\ UNCHANGED <<cfg, peer, payload, input, messagesRef, statusSeen,
                   pendingAppends, calls, provider, streamDataRef>>

\* The request fails: a transport error, a malformed record, an error
\* reported by the backend, or a value thrown by a callback.
Fail(c) ==
    /\ ~Aborted(cycles[c])
    /\ \E err \in FailureValues : Rejected(c, err)

\* The transport honours the abort signal that stop() raised.
Cancelled(c) ==
    /\ Aborted(cycles[c])
    /\ Rejected(c, AbortError)

\* The trailing timer of cycle c's throttle fires and writes the last list
\* it was given.
ThrottleTimer(c) ==
    /\ pendingAppends = <<>>
    /\ c \in DOMAIN cycles
    /\ cycles[c].pending.has
    /\ messages' = cycles[c].pending.val
    /\ cycles' = IF cycles[c].phase = "settled" /\ ~cycles[c].dataPending.has
                 THEN Remove(cycles, c)
                 ELSE [cycles EXCEPT ![c].pending = NoWrite,
                                     ![c].inWindow = TRUE]
    /\ ended' = NotEnded
    /\ UNCHANGED <<cfg, peer, payload, input, status, error, messagesRef,
                   statusSeen, abortControllerRef, pendingAppends, started,
                   calls, autoStarted, provider, streamData, streamDataRef>>

\* The throttle window of cycle c passes without a further call.
ThrottleWindow(c) ==
    /\ pendingAppends = <<>>
    /\ cycles[c].phase = "inflight"
    /\ cycles[c].inWindow
    /\ ~cycles[c].pending.has
    /\ cycles' = [cycles EXCEPT ![c].inWindow = FALSE]
    /\ ended' = NotEnded
    /\ UNCHANGED <<cfg, peer, payload, input, messages, status, error,
                   messagesRef, statusSeen, abortControllerRef, pendingAppends,
                   started, calls, autoStarted, provider, streamData,
                   streamDataRef>>

\* The trailing timer of the throttle of cycle c's data writes fires and
\* writes the last data it was given.
DataThrottleTimer(c) ==
    /\ pendingAppends = <<>>
    /\ c \in DOMAIN cycles
    /\ cycles[c].dataPending.has
    /\ streamData' = cycles[c].dataPending.val
    /\ cycles' = IF cycles[c].phase = "settled" /\ ~cycles[c].pending.has
                 THEN Remove(cycles, c)
                 ELSE [cycles EXCEPT ![c].dataPending = NoWrite,
                                     ![c].dataInWindow = TRUE]
    /\ ended' = NotEnded
    /\ UNCHANGED <<cfg, peer, payload, input, messages, status, error,
                   messagesRef, statusSeen, abortControllerRef,
                   pendingAppends, started, calls, autoStarted, provider,
                   streamDataRef>>

\* The window of the throttle of cycle c's data writes passes without a
\* further call.
DataThrottleWindow(c) ==
    /\ pendingAppends = <<>>
    /\ cycles[c].phase = "inflight"
    /\ cycles[c].dataInWindow
    /\ ~cycles[c].dataPending.has
    /\ cycles' = [cycles EXCEPT ![c].dataInWindow = FALSE]
    /\ ended' = NotEnded
    /\ UNCHANGED <<cfg, peer, payload, input, messages, status, error,
                   messagesRef, statusSeen, abortControllerRef,
                   pendingAppends, started, calls, autoStarted, provider,
                   streamData, streamDataRef>>

\* ------------------------------------------------------ the specification

Next ==
    \/ AppendCall
    \/ AppendResume
    \/ reload
    \/ stop
    \/ setMessages
    \/ \E toolCallId \in OutstandingCalls : addToolResult(toolCallId)
    \/ Render
    \/ \E c \in DOMAIN cycles : Event(c)
    \/ \E c \in DOMAIN cycles : Succeed(c)
    \/ \E c \in DOMAIN cycles : Fail(c)
    \/ \E c \in DOMAIN cycles : Cancelled(c)

Spec == Init /\ [][Next]_vars

\* The hook with a throttle wait: requests made by reload run their course
\* while the timers of their throttles fire.
NextThrottled ==
    \/ reload
    \/ Render
    \/ \E c \in DOMAIN cycles : Event(c)
    \/ \E c \in DOMAIN cycles : Succeed(c)
    \/ \E c \in DOMAIN cycles : Fail(c)
    \/ \E c \in DOMAIN cycles : ThrottleTimer(c)
    \/ \E c \in DOMAIN cycles : ThrottleWindow(c)

\* A timer that has been set fires: the event loop runs it once its delay
\* has passed.
SpecThrottled ==
    /\ InitThrottled
    /\ [][NextThrottled]_vars
    /\ \A c \in 1..MaxWork : WF_vars(ThrottleTimer(c))

\* The session driven through the form: the user types and submits, and the
\* requests run their course.
NextSubmit ==
    \/ handleInputChange
    \/ \E allowEmptySubmit \in BOOLEAN : handleSubmitCall(allowEmptySubmit)
    \/ handleSubmitResume
    \/ Render
    \/ \E c \in DOMAIN cycles : Event(c)
    \/ \E c \in DOMAIN cycles : Succeed(c)
    \/ \E c \in DOMAIN cycles : Fail(c)

SpecSubmit == Init /\ [][NextSubmit]_vars

\* Requests made by append and reload run their course.
NextStream ==
    \/ AppendCall
    \/ AppendResume
    \/ reload
    \/ Render
    \/ \E c \in DOMAIN cycles : Event(c)
    \/ \E c \in DOMAIN cycles : Succeed(c)
    \/ \E c \in DOMAIN cycles : Fail(c)

SpecStream == InitStream /\ [][NextStream]_vars

\* The payload of one request is built.
NextPayload == BuildPayload

SpecPayload == InitPayload /\ [][NextPayload]_vars

\* Two hooks of one application: the first makes requests and edits its
\* history, the second edits the history it sees.
NextShared ==
    \/ reload
    \/ setMessages
    \/ \E list \in {<<>>, <<Legacy(UserMessage)>>} : PeerSetMessages(list)
    \/ PeerStop
    \/ Render
    \/ \E c \in DOMAIN cycles : Event(c)
    \/ \E c \in DOMAIN cycles : Succeed(c)
    \/ \E c \in DOMAIN cycles : Fail(c)

SpecShared == InitShared /\ [][NextShared]_vars

\* Calls on an OpenAI provider.
NextProvider == ProviderCall

SpecProvider == InitProvider /\ [][NextProvider]_vars

\* The caller invokes one operation on the side channel, and a second one
\* when the hook has no throttle wait.
DataCall == calls = 0 \/ (~cfg.throttle /\ calls = 1)

\* The side channel: the caller sets the data, and requests made by reload
\* stream data items while the timers of their throttles fire.
NextData ==
    \/ DataCall /\ setData
    \/ DataCall /\ reload
    \/ Render
    \/ \E c \in DOMAIN cycles : Event(c)
    \/ \E c \in DOMAIN cycles : Succeed(c)
    \/ \E c \in DOMAIN cycles : Fail(c)
    \/ \E c \in DOMAIN cycles : ThrottleTimer(c)
    \/ \E c \in DOMAIN cycles : ThrottleWindow(c)
    \/ \E c \in DOMAIN cycles : DataThrottleTimer(c)
    \/ \E c \in DOMAIN cycles : DataThrottleWindow(c)

\* Tool calls: the caller supplies results under any id, for outstanding
\* calls, for resolved ones and for calls no message holds, while requests
\* run their course.
NextTools ==
    \/ \E toolCallId \in ToolCallIds : addToolResult(toolCallId)
    \/ reload
    \/ Render
    \/ \E c \in DOMAIN cycles : Event(c)
    \/ \E c \in DOMAIN cycles : Succeed(c)
    \/ \E c \in DOMAIN cycles : Fail(c)

SpecTools == Init /\ [][NextTools]_vars

\* The await of callChatApi for cycle c ends: the call completes, fails, or
\* is aborted after stop().
Settles(c) ==
    /\ c \in DOMAIN cycles
    /\ Succeed(c) \/ Fail(c) \/ Cancelled(c)

\* The caller invokes one operation that can start a request and, when the
\* hook does not auto-continue, stop() before or after it, so that every
\* cycle the operations lead to is within the bounds.
LiveCall == calls = 0 \/ (cfg.maxSteps = 1 /\ calls = 1 /\ started = 0)

LiveStop == cfg.maxSteps = 1 /\ calls < 2

\* An operation that adds a message to a history with room for it.
LiveAppend == LiveCall /\ Len(messagesRef) < MaxMsgs

\* A hook that auto-continues, and one that does not.
InitLive ==
    \E n \in {1, MaxStepsCfg} : Constructed([BaseConfig EXCEPT !.maxSteps = n])

\* The session with its requests running their course.
NextLive ==
    \/ LiveAppend /\ AppendCall
    \/ AppendResume
    \/ LiveCall /\ reload
    \/ LiveStop /\ stop
    \/ LiveAppend /\ \E b \in BOOLEAN : handleSubmitCall(b)
    \/ handleSubmitResume
    \/ LiveCall /\ \E toolCallId \in OutstandingCalls :
                      addToolResult(toolCallId)
    \/ Render
    \/ \E c \in DOMAIN cycles : Event(c)
    \/ \E c \in DOMAIN cycles : Settles(c)

\* Every transport call eventually completes, fails or is aborted, and a
\* handler suspended at an await is resumed.
SpecLive ==
    /\ InitLive
    /\ [][NextLive]_vars
    /\ \A c \in 1..MaxWork : WF_vars(Settles(c))
    /\ WF_vars(AppendResume)
    /\ WF_vars(handleSubmitResume)

SpecData == InitData /\ [][NextData]_vars

\* ------------------------------------------------------------- properties

Busy == status \in {"submitted", "streaming"}

\* C1: a request cycle whose callChatApi resolves, that stop() did not
\* abort and during which no other cycle was in flight, leaves its try
\* block with status 'ready' and error undefined; when no continuation
\* follows, that is the state of the store after the cycle.
C1_SuccessEndsReady ==
    (ended.how = "success" /\ ~ended.overlapped) =>
        /\ ended.status = "ready"
        /\ ended.error = None
        /\ ~ended.resubmitted => (status = "ready" /\ error = None)

\* A cycle that streamed events has succeeded on its own, and the store
\* shows 'ready'.
C1_Witness ==
    /\ ended.how = "success"
    /\ ~ended.overlapped
    /\ ~ended.resubmitted
    /\ ended.nEvents > 0
    /\ status = "ready"

\* C2 as stated: status is 'submitted' or 'streaming' exactly when a request
\* cycle is in flight.
C2_BusyIffInFlight == Busy <=> (InFlight # {})

\* C3 as stated: error is defined exactly when status is 'error'.
C3_ErrorIffStatusError == (error # None) <=> (status = "error")

\* C4 as stated: at most one request cycle is in flight at any time.
C4_AtMostOneInFlight == Cardinality(InFlight) <= 1

\* C5 as stated: a cycle that stop() aborted while the status was
\* 'streaming' ends with status 'ready' and error undefined.
C5_StopWhileStreamingEndsReady ==
    (ended.how = "abort" /\ ended.stopped = "streaming") =>
        (status = "ready" /\ error = None)

\* C6: the step in which a cycle ends by cancellation (AbortError) leaves
\* error as it was and does not invoke onError.
C6_CancellationIsSilent ==
    [][ended'.how = "abort" => (error' = error /\ ended'.onError = 0)]_vars

\* A cycle that had streamed events ends by cancellation after a stop()
\* while streaming.
C6_Witness ==
    /\ ended.how = "abort"
    /\ ended.stopped = "streaming"
    /\ ended.nEvents > 0
    /\ status = "ready"

C8_EarlyStopPreventsStreaming ==
    \A c \in DOMAIN cycles : cycles[c].early => cycles[c].nEvents = 0

\* C9 as stated: with no request cycle in flight, the addToolResult call
\* that resolves the last outstanding invocation of the last message starts
\* exactly one request cycle, and a call that leaves an invocation
\* unresolved starts none.
C9_ResolvingLastStartsOneCycle ==
    [][\A id \in 1..MaxTools :
          (addToolResult(id) /\ InFlight = {}) =>
              started' - started =
                  IF isAssistantMessageWithCompletedToolCalls(
                         Last(updateToolCallResult(messagesRef, id)))
                  THEN 1 ELSE 0]_vars

\* C10 as stated: one request started by the caller leads to at most
\* maxSteps request cycles in total.
C10_AtMostMaxStepsCycles == calls = 1 => started <= cfg.maxSteps

\* C11 as stated: the request cycles started by tool-call resolution (the
\* continuation check and addToolResult) since the caller's last append or
\* reload never exceed maxSteps.
C11_AutoStartsWithinStepBound == autoStarted <= cfg.maxSteps

\* C12 as stated: a cycle that ends in a non-cancellation failure is followed
\* by no request of the engine's own: status is 'error' and error is set
\* when its handler is done.
C12_NoRequestAfterFailure ==
    ended.how = "error" =>
        (~ended.resubmitted /\ status = "error" /\ error = ended.value)

C15_RolledBackAfterEveryFailure ==
    (ended.how = "error" /\ ~cfg.keepLastMessageOnError) => ended.rolledBack

\* C16: reload on an empty history (messagesRef.current) changes nothing; on
\* a history that ends with an assistant message it starts a request with
\* the history minus that message, otherwise with the history unchanged.
C16_ReloadRequest ==
    [][reload =>
         IF messagesRef = <<>>
         THEN UNCHANGED <<messages, status, error, abortControllerRef,
                          cycles, started, messagesRef>>
         ELSE LET expected == IF Last(messagesRef).role = "assistant"
                              THEN Front(messagesRef) ELSE messagesRef
              IN  /\ started' >= started + 1
                  /\ ended'.how = "none" =>
                        /\ started' = started + 1
                        /\ cycles'[started'].chatMessages = expected
                        /\ messages' = expected
                        /\ status' = "submitted"
                  /\ (ended'.how = "error" /\ ~ended'.resubmitted) =>
                        messages' = expected]_vars

\* The first operation was a reload of a history that ended with an
\* assistant message, and the request carries the history without it.
C16_Witness ==
    /\ calls = 1
    /\ started = 1
    /\ Len(messagesRef) = 2
    /\ Last(messagesRef).role = "assistant"
    /\ 1 \in DOMAIN cycles
    /\ cycles[1].chatMessages = Front(messagesRef)

C19_HandleSubmit ==
    [][/\ \A allowEmptySubmit \in BOOLEAN :
             handleSubmitCall(allowEmptySubmit) =>
                IF input = "" /\ ~allowEmptySubmit
                THEN UNCHANGED <<messages, status, error, messagesRef,
                                 abortControllerRef, pendingAppends, input,
                                 cycles, started>>
                ELSE /\ Len(pendingAppends') = Len(pendingAppends) + 1
                     /\ Last(pendingAppends').content = input
       /\ handleSubmitResume =>
             LET content == Head(pendingAppends).content
                 expected == Append(messagesRef, SubmittedMessage(content))
             IN  /\ input' = ""
                 /\ started' >= started + 1
                 /\ ended'.how = "none" =>
                       /\ started' = started + 1
                       /\ cycles'[started'].chatMessages = expected
                       /\ Last(messages') = SubmittedMessage(content)
                       /\ messages' = expected]_vars

\* A non-empty input has been submitted: the request carries the user
\* message with that content and the input is empty.
C19_Witness ==
    /\ calls = 1
    /\ started = 1
    /\ input = ""
    /\ 1 \in DOMAIN cycles
    /\ Last(cycles[1].chatMessages) = SubmittedMessage("text")
    /\ messages = cycles[1].chatMessages

\* C20 as stated: the promise of a request cycle that completes successfully
\* (the promise append returns) resolves to the id of the new assistant
\* message.
C20_SuccessResolvesToId ==
    ended.how = "success" => ended.returned = "id"

\* C21 as stated: an addToolResult called while a request cycle is in flight
\* updates the tool invocation and starts no request cycle.
C21_NoStartWhileInFlight ==
    [][\A toolCallId \in 1..MaxTools :
          (addToolResult(toolCallId) /\ InFlight # {}) =>
              started' = started]_vars

\* C22 as stated: two hooks constructed with the same session id return the
\* same messages, status and error, whatever endpoint each was given.
C22_SameIdSharesEntry == (cfg.id = peer.id) => (PeerView = HookView)

\* The list cycle cyc last handed to its throttle: the request's messages,
\* or the list of its latest stream update.
Published(cyc) ==
    IF cyc.nEvents = 0 THEN cyc.chatMessages
    ELSE Append(IF ReplacesLast(cyc) THEN Front(cyc.chatMessages)
                ELSE cyc.chatMessages, cyc.msg)

\* C23 as stated: a stream update is written only over the list its own
\* cycle published last; it never replaces a list that setMessages,
\* addToolResult or another cycle has published since.
C23_NoStaleWrite ==
    [][\A c \in DOMAIN cycles :
          Event(c) => messages = Published(cycles[c])]_vars

\* A trailing write of cycle c's throttle is waiting for its timer.
Deferred(c) == c \in DOMAIN cycles /\ cycles[c].pending.has

\* C24: with no throttle wait every stream update is written at once; with
\* one, an update is either written at once or becomes the one trailing
\* write of its throttle, replacing the update that waited there; the timer
\* writes the update that waits, and every trailing write is eventually
\* made.
C24_ThrottleKeepsLastInOrder ==
    /\ [][\A c \in DOMAIN cycles :
            /\ Event(c) =>
                  LET update == Published(cycles'[c])
                  IN  IF ~cfg.throttle \/ ~cycles[c].inWindow
                      THEN /\ messages' = update
                           /\ ~cycles'[c].pending.has
                      ELSE /\ messages' = messages
                           /\ cycles'[c].pending = Write(update)
            /\ ThrottleTimer(c) => messages' = cycles[c].pending.val]_vars
    /\ \A c \in 1..MaxWork : Deferred(c) ~> ~Deferred(c)

\* Two stream updates fell into one throttle window and the store holds the
\* list of the second one.
C24_Witness ==
    /\ cfg.throttle
    /\ \E c \in InFlight :
          /\ cycles[c].nEvents = 2
          /\ ~cycles[c].pending.has
          /\ ~cycles[c].overlapped
          /\ messages = Published(cycles[c])

\* C25 as stated: status goes from 'streaming' to 'submitted' only in a step
\* that starts a request, and never from 'ready' or 'error' straight to
\* 'streaming'.
C25_StatusMovesForward ==
    [][/\ (status = "streaming" /\ status' = "submitted") =>
             started' > started
       /\ status \in {"ready", "error"} => status' # "streaming"]_vars

\* The text deltas of a response put together in the order of arrival.
RECURSIVE Concat(_)
Concat(deltas) ==
    IF deltas = <<>> THEN "" ELSE Concat(Front(deltas)) \o Last(deltas)

C27_PartsPopulated == \A i \in DOMAIN messages : messages[i].parts

\* An initial history passed in the legacy shape, a message appended to it
\* and a streamed message are in the store, all with parts.
C27_Witness ==
    /\ Len(messages) = 4
    /\ status = "streaming"
    /\ \A i \in DOMAIN messages : messages[i].parts

\* A request has been started in this step and callChatApi has been called
\* for it.
Issued == started' > started /\ started' \in InFlightIn(cycles')

\* C28: whatever the state before, a step in which triggerRequest runs up to
\* the call of callChatApi leaves status 'submitted' and error undefined.
C28_RequestStartsSubmitted ==
    [][Issued => (status' = "submitted" /\ error' = None)]_vars

\* A request has failed with an error, and the request started by the same
\* handler has reset status and error.
C28_Witness ==
    /\ ended.how = "error"
    /\ ended.status = "error"
    /\ ended.error # None
    /\ ended.resubmitted
    /\ status = "submitted"
    /\ error = None

\* C29: with no throttle wait, a step in which triggerRequest runs up to the
\* call of callChatApi leaves the request's messages in the store, with
\* status 'submitted' and no stream event yet; for append these are the
\* history plus the new user message.
C29_OptimisticWrite ==
    [][/\ (Issued /\ ~cfg.throttle) =>
             /\ messages' = cycles'[started'].chatMessages
             /\ cycles'[started'].nEvents = 0
             /\ status' = "submitted"
       /\ (AppendResume /\ ended'.how = "none") =>
             messages' = Append(messagesRef, UserMessage)]_vars

\* append on a history of two messages has written the three messages of
\* its request; the response has not begun and the ref still holds the
\* history.
C29_Witness ==
    /\ status = "submitted"
    /\ started = 1
    /\ 1 \in InFlight
    /\ cycles[1].nEvents = 0
    /\ Len(messages) = 3
    /\ messages = cycles[1].chatMessages
    /\ Last(messages) = UserMessage
    /\ messagesRef = Front(messages)

\* C30: without sendExtraMessageFields the payload has one message for each
\* message of the request, in order, each with the role and content of its
\* message, with an optional field exactly when that field is not
\* undefined, and without id and createdAt; with sendExtraMessageFields the
\* payload holds the request's messages as they are.
C30_PayloadTrimmed ==
    payload.built =>
        LET chatMessages == fillMessageParts(payload.request)
            sent == payload.messages
        IN  IF cfg.sendExtraMessageFields THEN sent = chatMessages
            ELSE /\ Len(sent) = Len(chatMessages)
                 /\ \A i \in 1..Len(sent) :
                       /\ {"role", "content"} \subseteq DOMAIN sent[i]
                       /\ sent[i].role = chatMessages[i].role
                       /\ sent[i].content = chatMessages[i].content
                       /\ \A f \in OptionalFields :
                             /\ f \in DOMAIN sent[i] <=>
                                   Defined(chatMessages[i], f)
                             /\ f \in DOMAIN sent[i] =>
                                   sent[i][f] = chatMessages[i][f]
                       /\ DOMAIN sent[i] \cap BookkeepingFields = {}

\* A trimmed payload of two messages: the first with attachments and without
\* data, the second made from a message that had a createdAt.
C30_Witness ==
    /\ payload.built
    /\ ~cfg.sendExtraMessageFields
    /\ Len(payload.messages) = 2
    /\ "experimental_attachments" \in DOMAIN payload.messages[1]
    /\ "data" \notin DOMAIN payload.messages[1]
    /\ payload.request[2].createdAt # None
    /\ payload.request[1].role # payload.request[2].role


\* C31: without a throttle wait, after each stream update that carries data
\* items the stored data is the data that was stored when the cycle started
\* followed by the data items the cycle has received so far, in order, and
\* an update that carries no data items leaves the stored data unchanged.
C31_DataOnlyAppended ==
    [][\A c \in DOMAIN cycles :
          (Event(c) /\ ~cfg.throttle) =>
             IF Len(cycles'[c].data) > 0
             THEN streamData' = cycles[c].dataAtStart \o cycles'[c].data
             ELSE streamData' = streamData]_vars


\* C32: addToolResult(toolCallId, result) writes a list of the length of the
\* history it read, in which every message but the last is unchanged; the
\* invocation of the last message with the given id has state 'result', and
\* when no invocation has that id no invocation changes and no request is
\* started.
C32_AddToolResultFrame ==
    [][\A toolCallId \in ToolCallIds :
          addToolResult(toolCallId) =>
             /\ Len(messages') = Len(messagesRef)
             /\ \A i \in 1..(Len(messagesRef) - 1) :
                    messages'[i] = messagesRef[i]
             /\ IF toolCallId \in DOMAIN Last(messagesRef).inv
                THEN /\ Last(messages').inv[toolCallId].state = "result"
                     /\ \A j \in DOMAIN Last(messagesRef).inv \ {toolCallId} :
                            Last(messages').inv[j] = Last(messagesRef).inv[j]
                ELSE /\ Last(messages') = Last(messagesRef)
                     /\ started' = started]_vars


\* C33: whenever no request cycle is in flight, abortControllerRef.current
\* is null.
C33_NoTokenWhenIdle == InFlight = {} => abortControllerRef = 0

\* C34: while the most recently started cycle is in flight and stop() has
\* not aborted it, abortControllerRef.current holds that cycle's controller,
\* whatever happens to an earlier cycle that overlaps it.
C34_TokenOfNewestCycle ==
    (started \in InFlight /\ ~Aborted(cycles[started])) =>
        abortControllerRef = started

\* C35: stop() called on the second hook aborts no cycle of the first hook
\* and leaves the first hook's ref and the store entries alone, whether or
\* not the two hooks share their entries.
C35_TokenPerFacade ==
    [][PeerStop =>
          /\ cycles' = cycles
          /\ abortControllerRef' = abortControllerRef
          /\ HookView' = HookView]_vars

C35_Witness ==
    /\ peer.stopped
    /\ SharesEntry
    /\ status = "streaming"
    /\ abortControllerRef \in InFlight
    /\ \A c \in InFlight : ~Aborted(cycles[c])


\* C36: when callChatApi resolves and the auto-continuation check runs, the
\* list it reads, messagesRef.current, is the list of the cycle's latest
\* stream update.
C36_CheckSeesEveryUpdate ==
    [][\A c \in DOMAIN cycles :
          (Succeed(c) /\ cycles[c].nEvents > 0) =>
             messagesRef = Published(cycles[c])]_vars


\* C37: when a cycle completes and status becomes 'ready', no write of the
\* cycle's throttle is still waiting for its timer.
C37_NothingPendingAtReady ==
    [][\A c \in DOMAIN cycles :
          Succeed(c) => (status' = "ready" => ~cycles[c].pending.has)]_vars


\* C38: every stream update writes the messages of its request as they were
\* captured when the cycle started (without the last one when the response
\* continues it) followed by the one streamed message, whatever the store
\* holds, so the written list has as many messages as the request or one
\* more.
C38_WriteFromCapturedList ==
    [][\A c \in DOMAIN cycles :
          Event(c) =>
             LET request == cycles[c].chatMessages
             IN  /\ messages' =
                       Append(IF ReplacesLast(cycles[c]) THEN Front(request)
                              ELSE request, cycles'[c].msg)
                 /\ Len(messages') =
                       IF ReplacesLast(cycles[c]) THEN Len(request)
                       ELSE Len(request) + 1]_vars

\* setMessages emptied the history during a cycle, and the next stream
\* update of that cycle has put the request's messages and the streamed
\* message back into the store.
C38_Witness ==
    \E c \in InFlight :
       /\ cycles[c].nEvents > 0
       /\ status = "streaming"
       /\ ~cycles[c].overlapped
       /\ cycles[c].previousMessages # <<>>
       /\ messagesRef = <<>>
       /\ messages = Published(cycles[c])
       /\ Len(messages) = 2


C40_LanguageModelChoice ==
    ~provider.createdWithNew =>
       \A i \in DOMAIN provider.log :
          LET call == provider.log[i]
          IN  IF call.withNew THEN call.result.kind = "thrown"
              ELSE call.result =
                     IF call.modelId = "gpt-3.5-turbo-instruct"
                     THEN createCompletionModel(call.modelId)
                     ELSE createChatModel(call.modelId)


==========================================================================
